---------------------------- MODULE Spec2Model ----------------------------
(***************************************************************************)
(* The forwarding handler of youtube-transcript: `export default { async   *)
(* fetch(request) }` in its two deployed forms, src/worker/index.js and    *)
(* src/unnamed/part_000.  A request slot is one invocation of the handler; *)
(* its awaits (request.arrayBuffer(), fetch(), response.arrayBuffer()) are *)
(* the points where other invocations may run.                             *)
(***************************************************************************)
EXTENDS Integers, Sequences, FiniteSets, TLC

\* ------------------------------------------------------------------ bounds
\* Request slots that may be in flight at once (ConcSpec, FairSpec).
NumReqs == 2
\* Invocations of the handler in one behaviour.
MaxRequests == 2
\* Longest inbound or upstream body, in bytes.
MaxBodyLen == 1

\* --------------------------------------------------------------- JS values
\* What Headers.get and URLSearchParams.get return for a missing name.
Null == "<null>"

\* Mutant: a check against null alone (targetUrl === null), which lets ''
\* through.
TruthyNotNull(v) == v # Null

\* JS truthiness of a string-or-null: null and '' are falsy.
Truthy(v) == v # Null /\ v # ""

\* a || b
Or(a, b) == IF Truthy(a) THEN a ELSE b

\* Headers.get(name)
Get(h, name) == IF name \in DOMAIN h THEN h[name] ELSE Null

\* A header object from name/value pairs, leaving out the pairs without a value.
HeadersOf(pairs) ==
  [n \in {p[1] : p \in {q \in pairs : q[2] # Null}} |->
     (CHOOSE p \in pairs : p[1] = n /\ p[2] # Null)[2]]

\* Response and request bodies: null, a JS string, or raw bytes.
NullBody == [kind |-> "null", text |-> "", bytes |-> <<>>]
TextBody(s) == [kind |-> "text", text |-> s, bytes |-> <<>>]
BytesBody(b) == [kind |-> "bytes", text |-> "", bytes |-> b]

\* ---------------------------------------------------------- the constants
UserAgentValue ==
  "Mozilla/5.0 (Windows NT 10.0; Win64; x64) AppleWebKit/537.36 (KHTML, like Gecko) Chrome/131.0.0.0 Safari/537.36"
AcceptLanguageDefault == "ko-KR,ko;q=0.9,en-US;q=0.8,en;q=0.7"
AcceptDefault == "text/html,application/xhtml+xml,application/xml;q=0.9,*/*;q=0.8"
CookieValue ==
  "CONSENT=PENDING+987; SOCS=CAISHAgCEhJnd3NfMjAyNDAxMDEtMF9SQzIaAmVuIAEaBgiA0JCuBg"

\* The two source files.
Variants == {"worker", "part_000"}


\* ------------------------------------------------------- the Fetch runtime
\* Statuses for which the Fetch standard forbids a body.
NullBodyStatus == {101, 204, 205, 304}

\* err.message of the TypeError the Response constructor throws (the wording
\* is the runtime's own).
NullBodyStatusMessage ==
  <<"n","u","l","l"," ","b","o","d","y"," ","s","t","a","t","u","s">>

\* new Response(body, {status, headers}) throws: a status outside 200..599
\* (RangeError), or a non-null body with a null body status (TypeError).
ResponseThrows(body, status) ==
  \/ status \notin 200..599
  \/ body.kind # "null" /\ status \in NullBodyStatus

\* new Response(body, {status, headers}) when it does not throw.  A string
\* body brings its own Content-Type unless the init names one.
Response(body, status, headers) ==
  [status |-> status,
   headers |-> IF body.kind = "text" /\ "Content-Type" \notin DOMAIN headers
               THEN headers @@ ("Content-Type" :> "text/plain;charset=UTF-8")
               ELSE headers,
   body |-> body]

\* Mutant: the message pasted between quotes without escaping.
RECURSIVE JSONStringRaw(_)
JSONStringRaw(chars) ==
  IF chars = <<>> THEN "" ELSE Head(chars) \o JSONStringRaw(Tail(chars))

\* JSON.stringify of a string, character by character: the quote and the
\* backslash are escaped.
RECURSIVE JSONString(_)
JSONString(chars) ==
  IF chars = <<>> THEN ""
  ELSE (IF Head(chars) = "\"" THEN "\\\""
        ELSE IF Head(chars) = "\\" THEN "\\\\"
        ELSE Head(chars)) \o JSONString(Tail(chars))

\* JSON.stringify({ error: message })
JSONStringify(message) == "{\"error\":\"" \o JSONString(message) \o "\"}"

\* --------------------------------------------------- the handler's pieces
\* url.searchParams.get('url')
targetUrl(req) == req.url

\* Mutant: a preflight that forgets POST.
PreflightResponseNoPost ==
  Response(NullBody, 200,
           ("Access-Control-Allow-Origin" :> "*")
           @@ ("Access-Control-Allow-Methods" :> "GET, OPTIONS")
           @@ ("Access-Control-Allow-Headers" :> "*"))

\* The preflight response.
PreflightResponse ==
  Response(NullBody, 200,
           ("Access-Control-Allow-Origin" :> "*")
           @@ ("Access-Control-Allow-Methods" :> "GET, POST, OPTIONS")
           @@ ("Access-Control-Allow-Headers" :> "*"))

\* new Response('Missing url parameter', { status: 400 })
MissingUrlResponse ==
  Response(TextBody("Missing url parameter"), 400, [n \in {} |-> ""])

\* Mutant: the outbound headers start from the inbound ones, and the
\* User-Agent is set only when the inbound request has none.
WorkerFetchInitKeepsAgent(req) ==
  [method |-> "GET",
   headers |-> ("User-Agent" :> Or(Get(req.headers, "User-Agent"), UserAgentValue))
               @@ ("Accept-Language" :>
                     Or(Get(req.headers, "Accept-Language"), AcceptLanguageDefault))
               @@ ("Accept" :> AcceptDefault)
               @@ ("Cookie" :> CookieValue),
   body |-> NullBody,
   redirect |-> "follow"]

\* src/worker/index.js: the Headers object and the init of the outbound call.
\* No method is named, so the call is a GET without a body.
WorkerFetchInit(req) ==
  [method |-> "GET",
   headers |-> ("User-Agent" :> UserAgentValue)
               @@ ("Accept-Language" :>
                     Or(Get(req.headers, "Accept-Language"), AcceptLanguageDefault))
               @@ ("Accept" :> AcceptDefault)
               @@ ("Cookie" :> CookieValue),
   body |-> NullBody,
   redirect |-> "follow"]

\* src/unnamed/part_000: fetchOptions as first built.
fetchOptions(req) ==
  [method |-> req.method,
   headers |-> ("User-Agent" :> UserAgentValue)
               @@ ("Accept-Language" :>
                     Or(Get(req.headers, "Accept-Language"), AcceptLanguageDefault))
               @@ ("Accept" :> Or(Get(req.headers, "Accept"), AcceptDefault))
               @@ ("Cookie" :> CookieValue),
   body |-> NullBody,
   redirect |-> "follow"]

\* src/unnamed/part_000: Content-Type, when truthy, is added for a POST.
WithContentType(req, opts) ==
  LET contentType == Get(req.headers, "Content-Type")
  IN  IF Truthy(contentType)
      THEN [opts EXCEPT !.headers = ("Content-Type" :> contentType) @@ @]
      ELSE opts

\* Mutant: the body read as text and encoded again; a byte that is not
\* UTF-8 comes back as U+FFFD.
RECURSIVE textRoundTrip(_)
textRoundTrip(bytes) ==
  IF bytes = <<>> THEN <<>>
  ELSE (IF Head(bytes) < 128 THEN <<Head(bytes)>> ELSE <<239, 191, 189>>)
       \o textRoundTrip(Tail(bytes))

\* request.arrayBuffer(): the raw bytes, undecoded.
arrayBuffer(bytes) == bytes

\* src/unnamed/part_000: fetchOptions.body = await request.arrayBuffer()
WithBody(req, opts) == [opts EXCEPT !.body = BytesBody(arrayBuffer(req.body))]

\* The relayed response's init.
RelayStatus(up) == up.status
RelayHeaders(up) ==
  ("Content-Type" :> Or(Get(up.headers, "Content-Type"), "text/html"))
  @@ ("Access-Control-Allow-Origin" :> "*")

\* The catch clause's response.
CatchResponse(message) ==
  Response(TextBody(JSONStringify(message)), 502,
           ("Content-Type" :> "application/json"))

\* Mutant: the try block opened after the read of the inbound body.
InTryAfterInboundBody(at) == at \in {"fetch", "body", "response"}

\* The awaits the try block encloses: all of them, and the construction of
\* the relayed response.
InTry(at) == at \in {"inboundBody", "fetch", "body", "response"}

\* ------------------------------------------------------------ the inputs
Slots == 1..NumReqs

Target == "https://example.test/page"

Bytes == {0, 255}

RECURSIVE BytesUpTo(_)
BytesUpTo(n) ==
  IF n = 0 THEN {<<>>}
  ELSE LET shorter == BytesUpTo(n - 1)
       IN  shorter \cup {Append(b, x) : b \in {c \in shorter : Len(c) = n - 1},
                                        x \in Bytes}

Bodies == BytesUpTo(MaxBodyLen)

\* err.message of a rejected await: the text, and a text that needs escaping.
ErrMessages ==
  { <<"f","e","t","c","h"," ","f","a","i","l","e","d">>, <<"\"","\\">> }

\* An inbound request: its method, its url query parameter as
\* searchParams.get gives it, its headers and its body bytes.
Request(method, url, al, ac, ct, ua, body) ==
  [method |-> method,
   url |-> url,
   headers |-> HeadersOf({<<"Accept-Language", al>>, <<"Accept", ac>>,
                          <<"Content-Type", ct>>, <<"User-Agent", ua>>,
                          <<"Cookie", IF ua = Null THEN Null ELSE "SID=1">>}),
   body |-> body]

InboundWith(m, bodies) ==
  { Request(m, u, al, ac, ct, ua, b) :
      u \in {Null, "", Target},
      al \in {Null, "", "en-US"},
      ac \in {Null, "", "application/json"},
      ct \in {Null, "", "application/json"},
      ua \in {Null, "curl/8.0"},
      b \in bodies }

\* Every inbound request of the bounded universe.  A GET or an OPTIONS
\* carries no body.
Inbound ==
  InboundWith("GET", {<<>>}) \cup InboundWith("OPTIONS", {<<>>})
  \cup InboundWith("POST", Bodies) \cup InboundWith("PUT", Bodies)

\* What the target answers once redirects are followed: a status, possibly
\* a Content-Type, and body bytes (none under a null body status).
UpstreamWith(statuses, bodies) ==
  { [status |-> st, headers |-> HeadersOf({<<"Content-Type", ct>>}), body |-> b] :
      st \in statuses, ct \in {Null, "", "application/json"},
      b \in bodies }

Upstream ==
  UpstreamWith({200, 404, 500}, Bodies) \cup UpstreamWith({204, 304}, {<<>>})

\* The few requests and answers of the concurrent universe.
ConcInbound ==
  { Request("GET", Target, "en-US", Null, Null, Null, <<>>),
    Request("POST", Target, Null, "application/json", "application/json",
            "curl/8.0", <<255>>),
    Request("OPTIONS", Null, Null, Null, Null, Null, <<>>),
    Request("PUT", "", Null, Null, Null, Null, <<0>>) }

ConcUpstream ==
  { [status |-> 200, headers |-> HeadersOf({<<"Content-Type", "image/png">>}),
     body |-> <<0>>],
    [status |-> 404, headers |-> HeadersOf({<<"Content-Type", Null>>}),
     body |-> <<255>>],
    [status |-> 204, headers |-> HeadersOf({<<"Content-Type", Null>>}),
     body |-> <<>>] }

ConcMessages == { <<"f","e","t","c","h"," ","f","a","i","l","e","d">> }

\* ---------------------------------------------------------------- state
VARIABLES
  variant,    \* which source file is deployed
  pc,         \* per slot: where the invocation stands
  request,    \* per slot: the inbound request
  outbound,   \* per slot: the arguments of its call of the global fetch
  sent,       \* per slot: how many times it called the global fetch
  upstream,   \* per slot: the upstream response fetch resolved with
  thrown,     \* per slot: the error raised in it, and at which step
  response,   \* per slot: the response the handler returned
  arrived,    \* invocations so far
  forwarded,  \* invocations that entered the try block
  calls       \* calls of the global fetch so far

vars == <<variant, pc, request, outbound, sent, upstream, thrown, response,
          arrived, forwarded, calls>>

EmptyHeaders == [n \in {} |-> ""]
NoRequest == [method |-> "", url |-> Null, headers |-> EmptyHeaders, body |-> <<>>]
NoOutbound == [url |-> Null, method |-> "", headers |-> EmptyHeaders,
               body |-> NullBody, redirect |-> ""]
NoUpstream == [status |-> 0, headers |-> EmptyHeaders, body |-> <<>>]
NoThrow == [at |-> "none", message |-> <<>>]
NoResponse == [status |-> 0, headers |-> EmptyHeaders, body |-> NullBody]

Init ==
  /\ variant \in Variants
  /\ pc = [r \in Slots |-> "idle"]
  /\ request = [r \in Slots |-> NoRequest]
  /\ outbound = [r \in Slots |-> NoOutbound]
  /\ sent = [r \in Slots |-> 0]
  /\ upstream = [r \in Slots |-> NoUpstream]
  /\ thrown = [r \in Slots |-> NoThrow]
  /\ response = [r \in Slots |-> NoResponse]
  /\ arrived = 0
  /\ forwarded = 0
  /\ calls = 0

\* -------------------------------------------------------- the handler
\* return resp
Returns(r, resp) ==
  /\ pc' = [pc EXCEPT ![r] = "done"]
  /\ response' = [response EXCEPT ![r] = resp]

\* An error with this message is raised at step `at`: inside the try block
\* the catch clause answers it, outside it leaves the handler.
Throws(r, at, message) ==
  /\ thrown' = [thrown EXCEPT ![r] = [at |-> at, message |-> message]]
  /\ IF InTry(at)
     THEN Returns(r, CatchResponse(message))
     ELSE /\ pc' = [pc EXCEPT ![r] = "fault"]
          /\ UNCHANGED response

\* fetch(targetUrl, init): the call is made and the handler awaits it.
CallsFetch(r, url, init) ==
  /\ outbound' = [outbound EXCEPT ![r] =
                    [url |-> url, method |-> init.method, headers |-> init.headers,
                     body |-> init.body, redirect |-> init.redirect]]
  /\ sent' = [sent EXCEPT ![r] = @ + 1]
  /\ calls' = calls + 1
  /\ pc' = [pc EXCEPT ![r] = "fetch"]

\* The handler is invoked with a request and runs to its first await or to
\* its return.
fetch(r, reqs) ==
  /\ pc[r] = "idle"
  /\ arrived < MaxRequests
  /\ \E req \in reqs :
       /\ request' = [request EXCEPT ![r] = req]
       /\ arrived' = arrived + 1
       /\ IF req.method = "OPTIONS"
          THEN /\ Returns(r, PreflightResponse)
               /\ UNCHANGED <<outbound, sent, calls, forwarded, thrown>>
          ELSE IF ~Truthy(targetUrl(req))
          THEN /\ Returns(r, MissingUrlResponse)
               /\ UNCHANGED <<outbound, sent, calls, forwarded, thrown>>
          ELSE /\ forwarded' = forwarded + 1
               /\ IF variant = "worker"
                  THEN /\ CallsFetch(r, targetUrl(req), WorkerFetchInit(req))
                       /\ UNCHANGED <<response, thrown>>
                  ELSE IF req.method = "POST"
                  THEN /\ pc' = [pc EXCEPT ![r] = "inboundBody"]
                       /\ UNCHANGED <<outbound, sent, calls, response, thrown>>
                  ELSE /\ CallsFetch(r, targetUrl(req), fetchOptions(req))
                       /\ UNCHANGED <<response, thrown>>
  /\ UNCHANGED <<variant, upstream>>

\* Mutant: fetchOptions kept at module level, so that the call is built
\* from the options some invocation in flight wrote.
InboundBodyResolvedShared(r) ==
  /\ pc[r] = "inboundBody"
  /\ \E q \in Slots :
       /\ pc[q] # "idle"
       /\ CallsFetch(r, targetUrl(request[r]),
                     WithBody(request[r],
                              WithContentType(request[r], fetchOptions(request[q]))))
  /\ UNCHANGED <<variant, request, upstream, thrown, response, arrived, forwarded>>

\* await request.arrayBuffer() resolves: the body is set and fetch is called.
InboundBodyResolved(r) ==
  /\ pc[r] = "inboundBody"
  /\ CallsFetch(r, targetUrl(request[r]),
                WithBody(request[r],
                         WithContentType(request[r], fetchOptions(request[r]))))
  /\ UNCHANGED <<variant, request, upstream, thrown, response, arrived, forwarded>>

\* await request.arrayBuffer() rejects.
InboundBodyRejected(r, messages) ==
  /\ pc[r] = "inboundBody"
  /\ \E m \in messages : Throws(r, "inboundBody", m)
  /\ UNCHANGED <<variant, request, outbound, sent, upstream, arrived, forwarded, calls>>

\* await fetch(...) resolves with the upstream response; the handler goes on
\* to await response.arrayBuffer().
FetchResolved(r, ups) ==
  /\ pc[r] = "fetch"
  /\ \E up \in ups : upstream' = [upstream EXCEPT ![r] = up]
  /\ pc' = [pc EXCEPT ![r] = "body"]
  /\ UNCHANGED <<variant, request, outbound, sent, thrown, response, arrived,
                 forwarded, calls>>

\* Mutant: one more try after a failed call.
FetchRejectedRetry(r, messages) ==
  /\ pc[r] = "fetch"
  /\ IF sent[r] < 2
     THEN /\ sent' = [sent EXCEPT ![r] = @ + 1]
          /\ calls' = calls + 1
          /\ UNCHANGED <<pc, thrown, response>>
     ELSE /\ \E m \in messages : Throws(r, "fetch", m)
          /\ UNCHANGED <<sent, calls>>
  /\ UNCHANGED <<variant, request, outbound, upstream, arrived, forwarded>>

\* await fetch(...) rejects.
FetchRejected(r, messages) ==
  /\ pc[r] = "fetch"
  /\ \E m \in messages : Throws(r, "fetch", m)
  /\ UNCHANGED <<variant, request, outbound, sent, upstream, arrived, forwarded, calls>>

\* await response.arrayBuffer() resolves: the relayed response is built
\* and returned, unless its construction throws.
BodyResolved(r) ==
  /\ pc[r] = "body"
  /\ LET body == BytesBody(arrayBuffer(upstream[r].body))
         status == RelayStatus(upstream[r])
     IN  IF ResponseThrows(body, status)
         THEN Throws(r, "response", NullBodyStatusMessage)
         ELSE /\ Returns(r, Response(body, status, RelayHeaders(upstream[r])))
              /\ UNCHANGED thrown
  /\ UNCHANGED <<variant, request, outbound, sent, upstream, arrived, forwarded, calls>>

\* await response.arrayBuffer() rejects.
BodyRejected(r, messages) ==
  /\ pc[r] = "body"
  /\ \E m \in messages : Throws(r, "body", m)
  /\ UNCHANGED <<variant, request, outbound, sent, upstream, arrived, forwarded, calls>>

\* The runtime has delivered the response; the invocation's locals are gone.
Delivered(r) ==
  /\ pc[r] = "done"
  /\ pc' = [pc EXCEPT ![r] = "idle"]
  /\ request' = [request EXCEPT ![r] = NoRequest]
  /\ outbound' = [outbound EXCEPT ![r] = NoOutbound]
  /\ sent' = [sent EXCEPT ![r] = 0]
  /\ upstream' = [upstream EXCEPT ![r] = NoUpstream]
  /\ thrown' = [thrown EXCEPT ![r] = NoThrow]
  /\ response' = [response EXCEPT ![r] = NoResponse]
  /\ UNCHANGED <<variant, arrived, forwarded, calls>>

\* One invocation at a time, over the whole bounded universe of requests.
Next ==
  \E r \in {1} :
    \/ fetch(r, Inbound)
    \/ InboundBodyResolved(r)
    \/ InboundBodyRejected(r, ErrMessages)
    \/ FetchResolved(r, Upstream)
    \/ FetchRejected(r, ErrMessages)
    \/ BodyResolved(r)
    \/ BodyRejected(r, ErrMessages)
    \/ Delivered(r)

Spec == Init /\ [][Next]_vars

\* Invocations in flight together, interleaved at their awaits.
ConcNext ==
  \E r \in Slots :
    \/ fetch(r, ConcInbound)
    \/ InboundBodyResolved(r)
    \/ InboundBodyRejected(r, ConcMessages)
    \/ FetchResolved(r, ConcUpstream)
    \/ FetchRejected(r, ConcMessages)
    \/ BodyResolved(r)
    \/ BodyRejected(r, ConcMessages)
    \/ Delivered(r)

ConcSpec == Init /\ [][ConcNext]_vars

\* The awaits are settled by the runtime: each pending await eventually
\* resolves or rejects (no handler is left suspended for ever).
FairSpec ==
  /\ ConcSpec
  /\ \A r \in Slots :
       /\ WF_vars(InboundBodyResolved(r) \/ InboundBodyRejected(r, ConcMessages))
       /\ WF_vars(FetchResolved(r, ConcUpstream) \/ FetchRejected(r, ConcMessages))
       /\ WF_vars(BodyResolved(r) \/ BodyRejected(r, ConcMessages))

\* ------------------------------------------------------------ the claims
Done(r) == pc[r] = "done"

\* The request passed the OPTIONS and the url checks.
Forwarded(r) == request[r].method # "OPTIONS" /\ Truthy(request[r].url)

\* The global fetch resolved and so did the read of the upstream body.
UpstreamRead(r) ==
  Done(r) /\ sent[r] = 1 /\ thrown[r].at \notin {"inboundBody", "fetch", "body"}

Has(h, name) == name \in DOMAIN h

\* C1: every OPTIONS request, with or without a url parameter, is answered
\* with no body, status 200 and exactly the three CORS preflight headers,
\* and it makes no outbound call.
C1_Preflight ==
  \A r \in Slots :
    Done(r) /\ request[r].method = "OPTIONS" =>
      /\ response[r].body.kind = "null"
      /\ response[r].status = 200
      /\ DOMAIN response[r].headers =
           {"Access-Control-Allow-Origin", "Access-Control-Allow-Methods",
            "Access-Control-Allow-Headers"}
      /\ response[r].headers["Access-Control-Allow-Origin"] = "*"
      /\ response[r].headers["Access-Control-Allow-Methods"] = "GET, POST, OPTIONS"
      /\ response[r].headers["Access-Control-Allow-Headers"] = "*"
      /\ sent[r] = 0
      /\ outbound[r] = NoOutbound

C1_Witness ==
  \E r \in Slots :
    Done(r) /\ request[r].method = "OPTIONS" /\ request[r].url = Target
    /\ response[r].status = 200

\* C2 as stated: every request without a url parameter (absent or empty),
\* of any method, is answered 400 'Missing url parameter'.
C2_AnyMethod ==
  \A r \in Slots :
    Done(r) /\ request[r].url \in {Null, ""} =>
      /\ response[r].status = 400
      /\ response[r].body = TextBody("Missing url parameter")

\* C2 as amended: every request without a url parameter (absent or empty)
\* whose method is not OPTIONS is answered 400 'Missing url parameter', and
\* makes no outbound call.
C2_MissingUrl ==
  \A r \in Slots :
    Done(r) /\ request[r].url \in {Null, ""} /\ request[r].method # "OPTIONS" =>
      /\ response[r].status = 400
      /\ response[r].body = TextBody("Missing url parameter")
      /\ sent[r] = 0

C2_Witness ==
  \E r \in Slots :
    Done(r) /\ request[r].url = "" /\ request[r].method = "POST"
    /\ response[r].status = 400

\* C3: whenever the outbound call completed with an upstream response, the
\* response returned has the upstream status and the upstream body bytes,
\* for every upstream status; no upstream status becomes a 502.
C3_RelayVerbatim ==
  \A r \in Slots :
    UpstreamRead(r) =>
      /\ response[r].status = upstream[r].status
      /\ response[r].body = BytesBody(upstream[r].body)

\* C4: every response to a request whose outbound call succeeded carries
\* Access-Control-Allow-Origin: * and the upstream Content-Type when the
\* upstream response has one, text/html when it has none.  ("Has one" is
\* read as "has a non-empty one", the reading that favours the claim.)
C4_RelayHeaders ==
  \A r \in Slots :
    UpstreamRead(r) =>
      /\ Get(response[r].headers, "Access-Control-Allow-Origin") = "*"
      /\ Get(response[r].headers, "Content-Type") =
           IF Get(upstream[r].headers, "Content-Type") \in {Null, ""}
           THEN "text/html"
           ELSE upstream[r].headers["Content-Type"]

\* The body JSON.stringify({error: message}) is to give, written out.
ExpectedErrorBody(message) ==
  CASE message = <<"f","e","t","c","h"," ","f","a","i","l","e","d">> ->
         "{\"error\":\"fetch failed\"}"
    [] message = <<"\"","\\">> -> "{\"error\":\"\\\"\\\\\"}"

\* C5: an error raised by the outbound call or by the read of its body
\* yields status 502, Content-Type: application/json and the body
\* {"error": <message>}, whatever the kind of failure.
C5_UpstreamFailure ==
  \A r \in Slots :
    Done(r) /\ thrown[r].at \in {"fetch", "body"} =>
      /\ Forwarded(r)
      /\ response[r].status = 502
      /\ response[r].headers = ("Content-Type" :> "application/json")
      /\ response[r].body = TextBody(ExpectedErrorBody(thrown[r].message))

C5_Witness ==
  \E r \in Slots :
    Done(r) /\ thrown[r].at = "body" /\ thrown[r].message = <<"\"","\\">>
    /\ response[r].status = 502

\* The request's call of the global fetch has been made.
Called(r) == pc[r] \in {"fetch", "body", "done"} /\ sent[r] = 1

C7_OneCallEach ==
  /\ \A r \in Slots : Done(r) => sent[r] = IF Forwarded(r) THEN 1 ELSE 0
  /\ (\A r \in Slots : pc[r] \in {"idle", "done"}) => calls = forwarded

\* The request is past its call of the global fetch, or will never make it.
PastCall(r) ==
  \/ pc[r] \in {"fetch", "body"}
  \/ Done(r) /\ Forwarded(r) /\ thrown[r].at # "inboundBody"

\* C7 as amended: a request that reaches forwarding causes at most one
\* outbound call: exactly one (never repeated, whether it succeeds or
\* fails, and never saved for an equal request) unless the read of its
\* inbound body fails first, and then none; preflight and missing-url
\* requests cause none.  So every step adds to the number of outbound
\* calls exactly the requests that enter the await of the global fetch,
\* and that number never exceeds the number of forwarded requests.
C7_CallAccounting ==
  [][ /\ calls' - calls =
           Cardinality({r \in Slots : pc[r] \in {"idle", "inboundBody"}
                                      /\ pc'[r] = "fetch"})
      /\ forwarded' - forwarded =
           Cardinality({r \in Slots : pc[r] = "idle"
                                      /\ pc'[r] \in {"inboundBody", "fetch"}})
      /\ \A r \in Slots : sent'[r] = IF PastCall(r)' THEN 1 ELSE 0
      /\ calls' <= forwarded' ]_vars

C7_Witness ==
  /\ \A r \in Slots : Done(r) /\ sent[r] = 1
  /\ \A r, q \in Slots : request[r] = request[q] /\ request[r].method = "GET"
  /\ calls = NumReqs

\* What the runtime did to the request: the upstream response, and the
\* await that rejected if one did.
EnvOf(r) ==
  [upstream |-> upstream[r],
   rejected |-> IF thrown[r].at \in {"inboundBody", "fetch", "body"}
                THEN thrown[r] ELSE NoThrow]

\* The handler run from start to end on one request, with nothing else in
\* flight: the call it makes, if any, and the response it returns.
Alone(v, req, env) ==
  IF req.method = "OPTIONS"
  THEN [outbound |-> NoOutbound, response |-> PreflightResponse]
  ELSE IF ~Truthy(targetUrl(req))
  THEN [outbound |-> NoOutbound, response |-> MissingUrlResponse]
  ELSE
    LET reads == v = "part_000" /\ req.method = "POST"
        init == IF v = "worker" THEN WorkerFetchInit(req)
                ELSE IF reads
                THEN WithBody(req, WithContentType(req, fetchOptions(req)))
                ELSE fetchOptions(req)
        call == [url |-> targetUrl(req), method |-> init.method,
                 headers |-> init.headers, body |-> init.body,
                 redirect |-> init.redirect]
        body == BytesBody(arrayBuffer(env.upstream.body))
    IN  IF reads /\ env.rejected.at = "inboundBody"
        THEN [outbound |-> NoOutbound,
              response |-> CatchResponse(env.rejected.message)]
        ELSE IF env.rejected.at \in {"fetch", "body"}
        THEN [outbound |-> call, response |-> CatchResponse(env.rejected.message)]
        ELSE IF ResponseThrows(body, RelayStatus(env.upstream))
        THEN [outbound |-> call, response |-> CatchResponse(NullBodyStatusMessage)]
        ELSE [outbound |-> call,
              response |-> Response(body, RelayStatus(env.upstream),
                                    RelayHeaders(env.upstream))]

\* C10: whatever else is in flight and however the awaits interleave, the
\* call a request makes and the response it gets are those of the handler
\* run alone on that request with the same upstream result.
C10_Independent ==
  \A r \in Slots :
    /\ Called(r) => outbound[r] = Alone(variant, request[r], EnvOf(r)).outbound
    /\ Done(r) =>
         /\ response[r] = Alone(variant, request[r], EnvOf(r)).response
         /\ outbound[r] = Alone(variant, request[r], EnvOf(r)).outbound

C10_Witness ==
  \E r, q \in Slots :
    /\ Done(r) /\ sent[r] = 1 /\ thrown[r].at = "none"
    /\ pc[q] = "body" /\ request[q] # request[r] /\ upstream[q] # upstream[r]
    /\ response[r].status = upstream[r].status

\* How a finished request ended.
PreflightOutcome(r) ==
  /\ request[r].method = "OPTIONS"
  /\ response[r].status = 200
  /\ Has(response[r].headers, "Access-Control-Allow-Methods")
ErrorOutcome(r) ==
  /\ response[r].status \in {400, 502}
  /\ response[r].body.kind = "text"
  /\ ~Has(response[r].headers, "Access-Control-Allow-Origin")
RelayedOutcome(r) ==
  /\ sent[r] = 1
  /\ thrown[r].at = "none"
  /\ response[r].body.kind = "bytes"
  /\ Has(response[r].headers, "Access-Control-Allow-Origin")
  /\ ~Has(response[r].headers, "Access-Control-Allow-Methods")

ExactlyOneOutcome(r) ==
  Cardinality({k \in {"preflight", "error", "relayed"} :
                 \/ k = "preflight" /\ PreflightOutcome(r)
                 \/ k = "error" /\ ErrorOutcome(r)
                 \/ k = "relayed" /\ RelayedOutcome(r)}) = 1

\* C9: every request, its awaits being settled, ends with exactly one of
\* the outcomes preflight, error (400 or 502) or relayed; every failure on
\* the way, a failed read of the inbound body included, becomes a response
\* and none leaves the handler.
C9_AlwaysAnswered ==
  \A r \in Slots : (pc[r] # "idle") ~> (Done(r) /\ ExactlyOneOutcome(r))

C9_Witness ==
  \E r \in Slots :
    /\ Done(r) /\ thrown[r].at = "inboundBody"
    /\ response[r].status = 502 /\ ExactlyOneOutcome(r)

=============================================================================
